---- MODULE Spec2Model ----
(***************************************************************************)
(* BoxcarMapper (mvpa2/mappers/boxcar.py): a mapper that turns a sequence  *)
(* of samples into fixed-length windows ("boxcars").                       *)
(*                                                                         *)
(* An array is a record [shape, flat]: numpy's shape tuple and the         *)
(* elements in row-major (C) order.  A call's outcome is Ok(value) or      *)
(* Err(kind of the Python exception).                                      *)
(***************************************************************************)
EXTENDS Integers, Sequences, FiniteSets

\* ------------------------------------------------------------------ bounds
MaxLen == 4        \* longest sample sequence
MaxStart == 2      \* most start points of a mapper
MaxBox == 2        \* largest boxlength

StartVals == 0 .. 3              \* start point values
Offsets == {-1, 0, 1}            \* offset values
Features == {2}                  \* feature counts of 2-D sample arrays

\* ------------------------------------------------------------- generalities
None == [none |-> TRUE]
Some(x) == [none |-> FALSE, v |-> x]
Ok(v) == [ok |-> TRUE, val |-> v]
Err(kind) == [ok |-> FALSE, err |-> kind]

\* The interpreter's __debug__.  It is True unless Python runs with -O, which
\* strips the blocks under "if __debug__:"; the model is of the default.
debug == TRUE

RECURSIVE Prod(_)
Prod(s) == IF s = <<>> THEN 1 ELSE Head(s) * Prod(Tail(s))

RECURSIVE Flatten(_)
Flatten(ss) == IF ss = <<>> THEN <<>> ELSE Head(ss) \o Flatten(Tail(ss))

RECURSIVE SumSeq(_)
SumSeq(s) == IF s = <<>> THEN 0 ELSE Head(s) + SumSeq(Tail(s))

Array(shape, flat) == [shape |-> shape, flat |-> flat]
ndim(a) == Len(a.shape)
\* elements of one item along the first axis
Stride(a) == Prod(Tail(a.shape))

\* An array of the given shape with pairwise distinct elements 0, 1, 2, ...
\* The mapper moves elements and never reads them, so that distinct elements
\* show every element that is lost, doubled or out of place.
Iota(shape) == Array(shape, [i \in 1 .. Prod(shape) |-> i - 1])

\* ------------------------------------------------------------ numpy, Python
\* slice.indices(n) for a step of 1: a negative index counts from the end,
\* and the result is clipped to [0, n].
ClipIndex(i, n) ==
    IF i < 0 THEN (IF i + n < 0 THEN 0 ELSE i + n)
    ELSE (IF i > n THEN n ELSE i)

\* a plausible slip: the stop of the slice taken as its last index
GetSliceInclusive(data, box) ==
    LET n == data.shape[1]
        lo == ClipIndex(box.start, n)
        hi == ClipIndex(box.stop + 1, n)
        len == IF hi > lo THEN hi - lo ELSE 0
        st == Stride(data)
    IN Array(<<len>> \o Tail(data.shape),
             SubSeq(data.flat, lo * st + 1, (lo + len) * st))

\* data[box] for box = slice(start, stop) along the first axis (ndim >= 1)
GetSlice(data, box) ==
    LET n == data.shape[1]
        lo == ClipIndex(box.start, n)
        hi == ClipIndex(box.stop, n)
        len == IF hi > lo THEN hi - lo ELSE 0
        st == Stride(data)
    IN Array(<<len>> \o Tail(data.shape),
             SubSeq(data.flat, lo * st + 1, (lo + len) * st))

\* data[np.newaxis]
NewAxis(data) == Array(<<1>> \o data.shape, data.flat)

\* np.atleast_2d
AtLeast2d(a) ==
    IF ndim(a) >= 2 THEN a
    ELSE IF ndim(a) = 1 THEN Array(<<1>> \o a.shape, a.flat)
    ELSE Array(<<1, 1>>, a.flat)

\* np.vstack(arrs): concatenation along the first axis of the arrays made at
\* least 2-D; no array at all, or arrays that differ in a later dimension,
\* raise ValueError.
vstack(arrs) ==
    LET as == [i \in 1 .. Len(arrs) |-> AtLeast2d(arrs[i])]
    IN IF Len(as) = 0 THEN Err("ValueError")
       ELSE IF \E i \in 1 .. Len(as) : Tail(as[i].shape) # Tail(as[1].shape)
            THEN Err("ValueError")
       ELSE Ok(Array(<<SumSeq([i \in 1 .. Len(as) |-> as[i].shape[1]])>>
                        \o Tail(as[1].shape),
                     Flatten([i \in 1 .. Len(as) |-> as[i].flat])))

\* np.repeat(data, n) without an axis: the flattened input, each element
\* repeated n times in a row
repeat(data, n) ==
    Array(<<Len(data.flat) * n>>,
          [i \in 1 .. Len(data.flat) * n |-> data.flat[((i - 1) \div n) + 1]])

\* np.concatenate(data) for an array of ndim >= 2: the items along the first
\* axis joined along their own first axis; no item raises ValueError.
concatenate(data) ==
    IF data.shape[1] = 0 THEN Err("ValueError")
    ELSE Ok(Array(<<data.shape[1] * data.shape[2]>> \o Tail(Tail(data.shape)),
                  data.flat))

\* ----------------------------------------------------------------- state
VARIABLES
    startpoints,   \* params.startpoints
    boxlength,     \* params.boxlength
    offset,        \* params.offset
    space,         \* get_space(): the space label, "None" for None
    __selectors,   \* the slices, one per start point
    _outshape,     \* the shape recorded by _train, or None
    op,            \* the last call
    arg,           \* its argument
    res,           \* its outcome
    origin,        \* history: the input whose forward mapping is `arg`
    everTrained,   \* history: a train call has succeeded
    justTrained    \* history: the call before the forward mapping of `arg`
                   \* (or of `origin`) was a successful train on it

params == <<startpoints, boxlength, offset, space>>
mapper == <<startpoints, boxlength, offset, space, __selectors, _outshape>>
vars == <<startpoints, boxlength, offset, space, __selectors, _outshape,
          op, arg, res, origin, everTrained, justTrained>>

\* ----------------------------------------------------------- construction
\* a plausible slip: the offset left out of the end of the box
MakeSelectorsStopUnshifted(sps, blen, off) ==
    [i \in 1 .. Len(sps) |->
        [start |-> sps[i] + off, stop |-> sps[i] + blen]]

\* __selectors: slice(i + offset, i + offset + boxlength) for i in startpoints
MakeSelectors(sps, blen, off) ==
    [i \in 1 .. Len(sps) |->
        [start |-> sps[i] + off, stop |-> sps[i] + off + blen]]

StartpointSeqs ==
    UNION {[1 .. n -> StartVals] : n \in 0 .. MaxStart}

\* __init__ after the parameters are set
Constructed ==
    /\ __selectors = MakeSelectors(startpoints, boxlength, offset)
    /\ _outshape = None
    /\ op = "init"
    /\ arg = None
    /\ res = Ok(None)
    /\ origin = None
    /\ everTrained = FALSE
    /\ justTrained = FALSE

Init ==
    /\ startpoints \in StartpointSeqs
    /\ boxlength \in 1 .. MaxBox
    /\ offset \in Offsets
    /\ space = "None"
    /\ Constructed

\* ------------------------------------------------------------------ _train
\* a plausible slip: the last index of the box compared with the length
IllegalBoxOffByOne(sp, n) ==
    \/ sp + offset + boxlength - 1 > n
    \/ sp + offset < 0

\* the box of start point sp does not fit a sequence of n samples
IllegalBox(sp, n) ==
    \/ sp + offset + boxlength - 1 > n - 1
    \/ sp + offset < 0

\* a plausible slip: the whole shape of the data appended
TrainShapeWhole(data) == <<Len(startpoints), boxlength>> \o data.shape

TrainShape(data) == <<Len(startpoints), boxlength>> \o Tail(data.shape)

_train(data) ==
    IF debug /\ \E i \in 1 .. Len(startpoints) :
                    IllegalBox(startpoints[i], data.shape[1])
    THEN Err("ValueError")
    ELSE Ok(TrainShape(data))

\* ---------------------------------------------------------------- forward1
\* a plausible slip: no check of the training, so that _outshape[2] of an
\* untrained mapper subscripts None
forward1Unguarded(data) ==
    IF ndim(data) = 0 THEN Err("IndexError")
    ELSE IF _outshape = None THEN Err("TypeError")
    ELSE IF Len(_outshape.v) < 3 THEN Err("IndexError")
    ELSE IF ~(data.shape[1] = _outshape.v[3]) THEN Err("ValueError")
    ELSE vstack([i \in 1 .. boxlength |-> NewAxis(data)])

forward1(data) ==
    IF _outshape = None \/ _outshape.v = <<>> THEN Err("RuntimeError")
    ELSE IF ndim(data) = 0 \/ Len(_outshape.v) < 3 THEN Err("IndexError")
    ELSE IF ~(data.shape[1] = _outshape.v[3]) THEN Err("ValueError")
    ELSE vstack([i \in 1 .. boxlength |-> NewAxis(data)])

\* ----------------------------------------------------------- _forward_data
_forward_data(data) ==
    vstack([i \in 1 .. Len(__selectors) |-> NewAxis(GetSlice(data, __selectors[i]))])

\* ---------------------------------------------------------------- reverse1
reverse1(data) ==
    IF debug /\ _outshape = None THEN Err("TypeError")
    ELSE IF debug /\ ~(data.shape = Tail(_outshape.v)) THEN Err("ValueError")
    ELSE Ok(data)

\* ----------------------------------------------------------- _reverse_data
\* a plausible slip: 2-D input broadcast as well
reverse_dataBroadcast2d(data) ==
    IF ndim(data) <= 2 THEN Ok(repeat(data, boxlength))
    ELSE IF ~(data.shape[2] = boxlength) THEN Err("ValueError")
    ELSE concatenate(data)

\* a plausible slip: the first axis compared with the boxlength
reverse_dataFirstAxis(data) ==
    IF ndim(data) < 2 THEN Ok(repeat(data, boxlength))
    ELSE IF ~(data.shape[1] = boxlength) THEN Err("ValueError")
    ELSE concatenate(data)

_reverse_data(data) ==
    IF ndim(data) < 2 THEN Ok(repeat(data, boxlength))
    ELSE IF ~(data.shape[2] = boxlength) THEN Err("ValueError")
    ELSE concatenate(data)

\* ---------------------------------------------------------------- Dataset
\* A dataset: the samples and the two collections of attributes, sa (one
\* value per sample) and fa (one per feature), each a function from the
\* attribute names to arrays.
Dataset(samples, sa, fa) == [samples |-> samples, sa |-> sa, fa |-> fa]

\* collection[k] = value under set_length_check(length): a value of another
\* length is refused with ValueError
SetAttr(r, length) ==
    IF ~r.ok THEN r
    ELSE IF r.val.shape[1] # length THEN Err("ValueError")
    ELSE r

\* value[0]
Item0(a) ==
    IF ndim(a) = 0 \/ a.shape[1] = 0 THEN Err("IndexError")
    ELSE Ok(Array(Tail(a.shape), SubSeq(a.flat, 1, Stride(a))))

\* the outcome of filling a collection: the first failure, else the values
Collected(rs) ==
    IF \E k \in DOMAIN rs : ~rs[k].ok
    THEN rs[CHOOSE k \in DOMAIN rs : ~rs[k].ok]
    ELSE Ok([k \in DOMAIN rs |-> rs[k].val])

\* a collection with one more attribute set
With(col, k, value) ==
    [n \in DOMAIN col \cup {k} |-> IF n = k THEN value ELSE col[n]]

offsetidx == space \o "_offsetidx"
onsetidx == space \o "_onsetidx"

\* np.arange(boxlength)
offsets == Iota(<<boxlength>>)

\* a plausible slip: the onsets shifted by the offset, as the slices are
onsetsShifted ==
    Array(<<Len(startpoints)>>,
          [i \in DOMAIN startpoints |-> startpoints[i] + offset])

\* params.startpoints.copy()
onsets == Array(<<Len(startpoints)>>, startpoints)

\* -------------------------------------------------------- _forward_dataset
_forward_dataset(dataset) ==
    LET msamp == _forward_data(dataset.samples)
    IN IF ~msamp.ok THEN msamp
       ELSE
       LET nsamples == msamp.val.shape[1]
           nfeatures == msamp.val.shape[2]
           fa == Collected([k \in DOMAIN dataset.fa |->
                     SetAttr(forward1(dataset.fa[k]), nfeatures)])
           sa == Collected([k \in DOMAIN dataset.sa |->
                     SetAttr(_forward_data(dataset.sa[k]), nsamples)])
           offs == SetAttr(Ok(offsets), nfeatures)
           ons == SetAttr(Ok(onsets), nsamples)
       IN IF ~fa.ok THEN fa
          ELSE IF ~sa.ok THEN sa
          ELSE IF space = "None" THEN Ok(Dataset(msamp.val, sa.val, fa.val))
          ELSE IF ~offs.ok THEN offs
          ELSE IF ~ons.ok THEN ons
          ELSE Ok(Dataset(msamp.val, With(sa.val, onsetidx, ons.val),
                          With(fa.val, offsetidx, offs.val)))

\* -------------------------------------------------------- _reverse_dataset
_reverse_dataset(dataset) ==
    LET msamp == _reverse_data(dataset.samples)
    IN IF ~msamp.ok THEN msamp
       ELSE IF ndim(msamp.val) < 2 THEN Err("IndexError")
       ELSE
       LET nsamples == msamp.val.shape[1]
           nfeatures == msamp.val.shape[2]
           keptfa == {k \in DOMAIN dataset.fa : space = "None" \/ k # offsetidx}
           keptsa == {k \in DOMAIN dataset.sa : space = "None" \/ k # onsetidx}
           fa == Collected([k \in keptfa |->
                     SetAttr(Item0(dataset.fa[k]), nfeatures)])
           sa == Collected([k \in keptsa |->
                     SetAttr(_reverse_data(dataset.sa[k]), nsamples)])
       IN IF ~fa.ok THEN fa
          ELSE IF ~sa.ok THEN sa
          ELSE Ok(Dataset(msamp.val, sa.val, fa.val))

\* ------------------------------------------------------------------ inputs
\* sample sequences: 1-D, and 2-D with a feature axis
SampleArrays ==
    {Iota(<<n>>) : n \in 0 .. MaxLen}
    \cup {Iota(<<n, f>>) : n \in 0 .. MaxLen, f \in Features}

\* single raw samples
RawSamples ==
    {Array(<<>>, <<0>>)} \cup {Iota(<<f>>) : f \in {1, 2}}

\* single windows
Windows ==
    {Iota(<<b>>) : b \in 1 .. MaxBox}
    \cup {Iota(<<b, f>>) : b \in 1 .. MaxBox, f \in Features}

\* arrays this mapper did not produce
ForeignArrays ==
    {Array(<<>>, <<0>>)}
    \cup {Iota(<<n>>) : n \in 0 .. 2}
    \cup {Iota(<<w, b>>) : w \in 0 .. 2, b \in 1 .. MaxBox + 1}

\* what _reverse_data is applied to: a foreign array, or the result of the
\* _forward_data call just made (remembering what that call mapped)
ReverseArgs ==
    {[data |-> d, origin |-> None] : d \in ForeignArrays}
    \cup (IF op = "forward_data" /\ res.ok
          THEN {[data |-> res.val, origin |-> Some(arg)]} ELSE {})

\* datasets: samples of n samples and f features, and attributes of the
\* given names
MkDataset(n, f, names) ==
    Dataset(Iota(<<n, f>>),
            [k \in names.sa |-> Iota(<<n>>)],
            [k \in names.fa |-> Iota(<<f>>)])

AttrNames ==
    { [sa |-> {}, fa |-> {}],
      [sa |-> {"targets"}, fa |-> {"roi"}],
      [sa |-> {"targets", "block_onsetidx"}, fa |-> {"roi", "block_offsetidx"}] }

Datasets ==
    {MkDataset(n, f, names) : n \in 0 .. MaxLen, f \in {1, 2}, names \in AttrNames}

\* datasets this mapper did not produce
ForeignDatasets ==
    {Dataset(Iota(<<2, b, 2>>),
             [k \in {"targets"} |-> Iota(<<2, b>>)],
             [k \in {"roi"} |-> Iota(<<b, 2>>)]) : b \in 1 .. MaxBox + 1}

ReverseDatasetArgs ==
    {[data |-> d, origin |-> None] : d \in ForeignDatasets}
    \cup (IF op = "forward_dataset" /\ res.ok
          THEN {[data |-> res.val, origin |-> Some(arg)]} ELSE {})

\* ----------------------------------------------------------------- actions
\* a plausible slip: the shape recorded before the boxes are checked
TrainRecordsFirst(data) ==
    /\ op' = "train"
    /\ arg' = data
    /\ res' = (IF _train(data).ok THEN Ok(None) ELSE _train(data))
    /\ _outshape' = Some(TrainShape(data))
    /\ everTrained' = (everTrained \/ _train(data).ok)
    /\ origin' = None
    /\ justTrained' = FALSE
    /\ UNCHANGED <<params, __selectors>>

\* train(data): _train with the samples (@accepts_dataset_as_samples hands
\* it the samples of a dataset).  A raise leaves the mapper as it was.
Train(data) ==
    /\ op' = "train"
    /\ arg' = data
    /\ res' = (IF _train(data).ok THEN Ok(None) ELSE _train(data))
    /\ _outshape' = (IF _train(data).ok THEN Some(_train(data).val) ELSE _outshape)
    /\ everTrained' = (everTrained \/ _train(data).ok)
    /\ origin' = None
    /\ justTrained' = FALSE
    /\ UNCHANGED <<params, __selectors>>

Forward1(data) ==
    /\ op' = "forward1"
    /\ arg' = data
    /\ res' = forward1(data)
    /\ origin' = None
    /\ justTrained' = FALSE
    /\ UNCHANGED <<mapper, everTrained>>

\* a plausible slip: the shape of what was mapped recorded as _outshape
ForwardDataRecordsShape(data) ==
    /\ op' = "forward_data"
    /\ arg' = data
    /\ res' = _forward_data(data)
    /\ _outshape' = (IF _forward_data(data).ok
                    THEN Some(_forward_data(data).val.shape) ELSE _outshape)
    /\ origin' = None
    /\ justTrained' = (op = "train" /\ res.ok /\ arg = data)
    /\ UNCHANGED <<params, __selectors, everTrained>>

ForwardData(data) ==
    /\ op' = "forward_data"
    /\ arg' = data
    /\ res' = _forward_data(data)
    /\ origin' = None
    /\ justTrained' = (op = "train" /\ res.ok /\ arg = data)
    /\ UNCHANGED <<mapper, everTrained>>

Reverse1(data) ==
    /\ op' = "reverse1"
    /\ arg' = data
    /\ res' = reverse1(data)
    /\ origin' = None
    /\ justTrained' = FALSE
    /\ UNCHANGED <<mapper, everTrained>>

ReverseData(a) ==
    /\ op' = "reverse_data"
    /\ arg' = a.data
    /\ res' = _reverse_data(a.data)
    /\ origin' = a.origin
    /\ justTrained' = (a.origin # None /\ justTrained)
    /\ UNCHANGED <<mapper, everTrained>>

ForwardDataset(dataset) ==
    /\ op' = "forward_dataset"
    /\ arg' = dataset
    /\ res' = _forward_dataset(dataset)
    /\ origin' = None
    /\ justTrained' = FALSE
    /\ UNCHANGED <<mapper, everTrained>>

ReverseDataset(a) ==
    /\ op' = "reverse_dataset"
    /\ arg' = a.data
    /\ res' = _reverse_dataset(a.data)
    /\ origin' = a.origin
    /\ justTrained' = FALSE
    /\ UNCHANGED <<mapper, everTrained>>

Next ==
    \/ \E data \in SampleArrays : Train(data)
    \/ \E data \in RawSamples : Forward1(data)
    \/ \E data \in SampleArrays : ForwardData(data)
    \/ \E data \in Windows : Reverse1(data)
    \/ \E a \in ReverseArgs : ReverseData(a)

Spec == Init /\ [][Next]_vars

\* The mapper with a space label, used on datasets as well.
DatasetStartVals == {0, 2}
DatasetOffsets == {-1, 0}

InitDataset ==
    /\ startpoints \in UNION {[1 .. n -> DatasetStartVals] : n \in 0 .. MaxStart}
    /\ boxlength \in 1 .. MaxBox
    /\ offset \in DatasetOffsets
    /\ space \in {"None", "block"}
    /\ Constructed

NextDataset ==
    \/ \E data \in SampleArrays : Train(data)
    \/ \E data \in RawSamples : Forward1(data)
    \/ \E data \in SampleArrays : ForwardData(data)
    \/ \E dataset \in Datasets : ForwardDataset(dataset)
    \/ \E data \in Windows : Reverse1(data)
    \/ \E a \in ReverseArgs : ReverseData(a)
    \/ \E a \in ReverseDatasetArgs : ReverseDataset(a)

SpecDataset == InitDataset /\ [][NextDataset]_vars

\* ================================================================= claims
\* item k (from 0) of array a along its first axis, as its elements
Sample(a, k) == SubSeq(a.flat, k * Stride(a) + 1, (k + 1) * Stride(a))

\* element [i][j] (from 0) of an array of ndim >= 2, as its elements
Elem(a, i, j) ==
    LET st == Prod(Tail(Tail(a.shape)))
    IN SubSeq(a.flat, (i * a.shape[2] + j) * st + 1,
              (i * a.shape[2] + j + 1) * st)

\* the adjusted range of start point sp lies inside [0, n)
Inside(sp, n) == 0 <= sp + offset /\ sp + offset + boxlength <= n
AllInside(n) == \A i \in DOMAIN startpoints : Inside(startpoints[i], n)

\* r holds one window per start point, in the order of the start points,
\* window i being items sp_i + offset .. sp_i + offset + boxlength - 1 of a
IsWindowsOf(r, a) ==
    /\ r.shape = <<Len(startpoints), boxlength>> \o Tail(a.shape)
    /\ \A i \in DOMAIN startpoints : \A j \in 0 .. boxlength - 1 :
           Elem(r, i - 1, j) = Sample(a, startpoints[i] + offset + j)

\* ---- C1
\* C1: _train(sequence) fails, with a ValueError, if and only if some start
\* point's adjusted range [sp+offset, sp+offset+boxlength) is not inside
\* [0, N), N the length of the sequence; otherwise it succeeds.
C1_TrainFailsIffOutOfRange ==
    op = "train" =>
        /\ (~res.ok) <=> ~AllInside(arg.shape[1])
        /\ (~res.ok) => res = Err("ValueError")

\* a train call refused only because a window ends beyond the sequence
C1_Witness ==
    /\ op = "train"
    /\ res = Err("ValueError")
    /\ \A i \in DOMAIN startpoints : startpoints[i] + offset >= 0
    /\ arg.shape[1] > 0

\* ---- C2
\* C2: the recorded output shape is (len(startpoints), boxlength) +
\* sample_shape[1:] of the most recent successful train: every successful
\* train sets it so (replacing what was recorded, and leaving it equal when
\* the sequence is the same), and nothing else changes it.
C2_OutshapeOfLastTrain ==
    [][ /\ (op' = "train" /\ res'.ok) =>
              _outshape' = Some(<<Len(startpoints), boxlength>> \o Tail(arg'.shape))
        /\ ~(op' = "train" /\ res'.ok) => _outshape' = _outshape ]_vars

\* a successful train on a 2-D sequence by a mapper of two start points
C2_Witness ==
    /\ op = "train"
    /\ res.ok
    /\ Len(startpoints) = 2
    /\ _outshape = Some(<<2, boxlength, 2>>)

\* ---- C3
\* C3 as stated: whenever every adjusted range lies inside the sequence,
\* _forward_data returns len(startpoints) windows in the order of the start
\* points, window i holding items sp_i+offset+j of the sequence.
C3_AsStated ==
    (op = "forward_data" /\ AllInside(arg.shape[1])) =>
        res.ok /\ IsWindowsOf(res.val, arg)

\* C3 amended: the same for a mapper with at least one start point; with no
\* start point _forward_data fails with a ValueError.
C3_ForwardWindows ==
    (op = "forward_data" /\ AllInside(arg.shape[1])) =>
        IF Len(startpoints) = 0 THEN res = Err("ValueError")
        ELSE res.ok /\ IsWindowsOf(res.val, arg)

\* windows out of order, of a sequence longer than what they cover
C3_Witness ==
    /\ op = "forward_data"
    /\ res.ok
    /\ AllInside(arg.shape[1])
    /\ Len(startpoints) = 2
    /\ startpoints[1] > startpoints[2]
    /\ arg.shape[1] > 2 * boxlength

\* ---- C4
\* the windows tile the sequence a exactly once, in order
Tiling(a) ==
    /\ \A k \in DOMAIN startpoints :
           startpoints[k] + offset = (k - 1) * boxlength
    /\ Len(startpoints) * boxlength = a.shape[1]

\* C4 as stated: for every sequence that the windows tile exactly once in
\* order, _reverse_data(_forward_data(sequence)) is the sequence.
C4_AsStated ==
    /\ (op = "forward_data" /\ Tiling(arg)) => res.ok
    /\ (op = "reverse_data" /\ origin # None /\ Tiling(origin.v)) =>
           res = Ok(origin.v)

\* C4 amended: the same for a non-empty sequence (at least one window); the
\* empty sequence tiled by no window is not forward-mapped at all
\* (ValueError).
C4_RoundTrip ==
    /\ (op = "forward_data" /\ Tiling(arg)) =>
           IF arg.shape[1] = 0 THEN res = Err("ValueError") ELSE res.ok
    /\ (op = "reverse_data" /\ origin # None /\ Tiling(origin.v)) =>
           res = Ok(origin.v)

\* the round trip through two windows
C4_Witness ==
    /\ op = "reverse_data"
    /\ origin # None
    /\ Tiling(origin.v)
    /\ Len(startpoints) = 2
    /\ res = Ok(origin.v)

C6_FailureKeepsState ==
    [][ (~res'.ok) => (_outshape' = _outshape /\ __selectors' = __selectors) ]_vars

\* a failed retrain of a trained mapper
C6_Witness ==
    /\ op = "train"
    /\ ~res.ok
    /\ everTrained
    /\ _outshape # None

\* ---- C7
\* two windows overlap
Overlapping ==
    \E i, j \in DOMAIN startpoints :
        /\ i # j
        /\ startpoints[i] - startpoints[j] < boxlength
        /\ startpoints[j] - startpoints[i] < boxlength

\* the windows that hold position p of the sequence
Covering(p) ==
    {i \in DOMAIN startpoints :
        startpoints[i] + offset <= p /\ p < startpoints[i] + offset + boxlength}

\* how often item p of sequence a is in sequence r
Occurrences(r, a, p) ==
    Cardinality({k \in 0 .. r.shape[1] - 1 : Sample(r, k) = Sample(a, p)})

\* the reverse mapping of the forward-mapped sequence the mapper was trained
\* on, its windows overlapping
OverlapCase ==
    /\ op = "reverse_data"
    /\ origin # None
    /\ justTrained
    /\ Overlapping

\* C7 as stated: with overlapping windows the reverse mapping of the forward
\* mapped sequence succeeds, is longer than the sequence, and holds each
\* sample of an overlap position more than once.
C7_AsStated ==
    OverlapCase =>
        /\ res.ok
        /\ res.val.shape[1] > origin.v.shape[1]
        /\ \A p \in 0 .. origin.v.shape[1] - 1 :
               Cardinality(Covering(p)) >= 2 => Occurrences(res.val, origin.v, p) >= 2

\* C7 amended: it succeeds, has len(startpoints) * boxlength items, which is
\* more than the number of positions the windows cover (not necessarily more
\* than N), and holds each sample of an overlap position more than once.
C7_OverlapDuplicates ==
    OverlapCase =>
        /\ res.ok
        /\ res.val.shape[1] = Len(startpoints) * boxlength
        /\ res.val.shape[1] >
               Cardinality({p \in 0 .. origin.v.shape[1] - 1 : Covering(p) # {}})
        /\ \A p \in 0 .. origin.v.shape[1] - 1 :
               Cardinality(Covering(p)) >= 2 => Occurrences(res.val, origin.v, p) >= 2

\* two distinct overlapping windows, reversed to no more items than N
C7_Witness ==
    /\ OverlapCase
    /\ res.ok
    /\ Len(startpoints) = 2
    /\ startpoints[1] # startpoints[2]
    /\ res.val.shape[1] <= origin.v.shape[1]

\* ---- C8
\* r is the windows of d joined in order
IsJoined(r, d) ==
    /\ r.shape = <<d.shape[1] * boxlength>> \o Tail(Tail(d.shape))
    /\ \A w \in 0 .. d.shape[1] - 1 : \A b \in 0 .. boxlength - 1 :
           Sample(r, w * boxlength + b) = Elem(d, w, b)

\* r is each element of d, boxlength times in a row
IsRepeated(r, d) ==
    /\ r.shape = <<Len(d.flat) * boxlength>>
    /\ \A i \in 0 .. Len(d.flat) - 1 : \A k \in 0 .. boxlength - 1 :
           r.flat[i * boxlength + k + 1] = d.flat[i + 1]

\* C8 as stated: an input of ndim >= 2 is reverse-mapped iff its second
\* dimension is boxlength (to its windows joined in order) and refused with
\* a ValueError otherwise; an input of ndim < 2 is never refused and gives
\* each element boxlength times.
C8_AsStated ==
    op = "reverse_data" =>
        IF ndim(arg) >= 2
        THEN /\ res.ok <=> arg.shape[2] = boxlength
             /\ res.ok => IsJoined(res.val, arg)
             /\ (~res.ok) => res = Err("ValueError")
        ELSE res.ok /\ IsRepeated(res.val, arg)

\* C8 amended: an input of ndim >= 2 is reverse-mapped iff its second
\* dimension is boxlength and it holds at least one window; the rest as
\* stated, trained or not.
C8_ReverseData ==
    op = "reverse_data" =>
        IF ndim(arg) >= 2
        THEN /\ res.ok <=> (arg.shape[2] = boxlength /\ arg.shape[1] >= 1)
             /\ res.ok => IsJoined(res.val, arg)
             /\ (~res.ok) => res = Err("ValueError")
        ELSE res.ok /\ IsRepeated(res.val, arg)

\* an array the mapper did not make, reverse-mapped before any training
C8_Witness ==
    /\ op = "reverse_data"
    /\ origin = None
    /\ ~everTrained
    /\ ndim(arg) = 2
    /\ arg.shape[1] = 2
    /\ res.ok

\* ---- C9
\* the names of the attributes of a dataset
Names(ds) == [sa |-> DOMAIN ds.sa, fa |-> DOMAIN ds.fa]

\* a trained mapper with a space label
TrainedInSpace == everTrained /\ space # "None"

\* r has the attributes of ds and the two auxiliary ones
HasAuxiliary(r, ds) ==
    /\ DOMAIN r.fa = DOMAIN ds.fa \cup {offsetidx}
    /\ DOMAIN r.sa = DOMAIN ds.sa \cup {onsetidx}
    /\ r.fa[offsetidx] = Array(<<boxlength>>, [i \in 1 .. boxlength |-> i - 1])
    /\ r.sa[onsetidx] = Array(<<Len(startpoints)>>, startpoints)

\* C9 as stated: a trained mapper with space label s maps every dataset to
\* one with the original attribute names plus s_offsetidx = [0..boxlength-1]
\* and s_onsetidx = the start points, and _reverse_dataset of that result has
\* exactly the original attribute names.
C9_AsStated ==
    /\ (op = "forward_dataset" /\ TrainedInSpace) =>
           res.ok /\ HasAuxiliary(res.val, arg)
    /\ (op = "reverse_dataset" /\ origin # None /\ TrainedInSpace) =>
           res.ok /\ Names(res.val) = Names(origin.v)

\* the dataset fits the mapper: there is a start point, every window lies
\* inside the samples, and the feature attributes (if any) have the length
\* the mapper was trained with
Conforms(ds) ==
    /\ Len(startpoints) >= 1
    /\ AllInside(ds.samples.shape[1])
    /\ \/ DOMAIN ds.fa = {}
       \/ Len(_outshape.v) >= 3 /\ _outshape.v[3] = ds.samples.shape[2]

\* C9 amended: a trained mapper with space label s maps every dataset that
\* fits it (and every dataset it maps at all) to one with the original
\* attribute names plus s_offsetidx = [0..boxlength-1] and s_onsetidx = the
\* start points, unshifted; _reverse_dataset of that result succeeds and has
\* the original attribute names except s_offsetidx and s_onsetidx: exactly
\* the original names when the dataset had no attributes of these two names.
C9_DatasetAttributes ==
    /\ (op = "forward_dataset" /\ TrainedInSpace /\ Conforms(arg)) => res.ok
    /\ (op = "forward_dataset" /\ TrainedInSpace /\ res.ok) =>
           HasAuxiliary(res.val, arg)
    /\ (op = "reverse_dataset" /\ origin # None /\ TrainedInSpace) =>
           /\ res.ok
           /\ DOMAIN res.val.fa = DOMAIN origin.v.fa \ {offsetidx}
           /\ DOMAIN res.val.sa = DOMAIN origin.v.sa \ {onsetidx}

\* a dataset with plain attributes, mapped forward by a mapper with a
\* non-zero offset and back
C9_Witness ==
    /\ op = "reverse_dataset"
    /\ origin # None
    /\ TrainedInSpace
    /\ offset # 0
    /\ Len(startpoints) = 2
    /\ res.ok
    /\ Names(origin.v) = [sa |-> {"targets"}, fa |-> {"roi"}]
    /\ Names(res.val) = Names(origin.v)

====
